---- MODULE Spec2Model ----
(***************************************************************************)
(* A model of lanzaboote's tool crate: the PE image assembly of            *)
(* rust/tool/src/pe.rs (lanzaboote_image, wrap_in_pe, Section::to_objcopy, *)
(* esp_relative_uefi_path, uefi_path, stub_offset, image_base, file_size)  *)
(* and the ESP path table of rust/tool/src/esp.rs (EspPaths).              *)
(*                                                                         *)
(* Strings and paths are sequences of tokens.  A token is one byte of the  *)
(* path ("/" is the separator, "." a dot, "~" a byte that is not valid     *)
(* UTF-8) or, where the bytes inside a name do not matter, a whole name    *)
(* such as "EFI".                                                          *)
(***************************************************************************)
EXTENDS Integers, Sequences, FiniteSets, TLC

VARIABLES
    esp,              \* the ESP root handed to the operation under study
    path,             \* the path handed to esp_relative_uefi_path
    converted,        \* its result
    esp_paths,        \* the EspPaths value built by EspPaths::new
    gc_roots,         \* what EspPaths::to_iter yielded
    lanzaboote_stub,  \* the stub file: what fs::read and PE::parse make of it
    os_release,       \* the os-release file: whether it exists, and its size
    kernel_cmdline,   \* the kernel command line, a list of strings
    kernel_path,
    initrd_path,
    overflow_checks,  \* the build: TRUE panics on integer overflow, FALSE wraps
    pc,               \* position inside lanzaboote_image
    disk,             \* the files on disk: path -> size
    offs,             \* the offsets computed so far (lines 46-51)
    sections,         \* the planned sections (lines 53-60)
    invocations,      \* the objcopy invocations made: argument list and exit
    result,           \* what lanzaboote_image returned
    sized,            \* the content files whose size has been read
    written,          \* the auxiliary files write_secure_file has written
    created,          \* every path the call has created a file at
    released          \* the caller has dropped the TempDir

pathVars == <<path, converted>>
espVars == <<esp_paths, gc_roots>>
inputVars == <<lanzaboote_stub, os_release, kernel_cmdline, kernel_path,
               initrd_path, overflow_checks>>
imageVars == <<disk, offs, sections, invocations, result, sized, written,
               created, released>>
vars == <<esp, pc, pathVars, espVars, inputVars, imageVars>>

(***************************************************************************)
(* Bounds of the model.                                                    *)
(***************************************************************************)
MaxEspLen == 2
MaxPathLen == 4
MaxRootLen == 3
U32Bits == 4
U64Bits == 8

HashLen == 32

None == <<"None">>

RECURSIVE Pow2(_)
Pow2(n) == IF n = 0 THEN 1 ELSE 2 * Pow2(n - 1)

\* The integer widths, scaled down: u32 is U32Bits wide and u64 is U64Bits wide.
U32 == Pow2(U32Bits)
U64 == Pow2(U64Bits)

AllSeqs(S, n) == UNION {[1..k -> S] : k \in 0..n}

Bytes == {"/", "a", ".", "~"}

\* Result values: Ok(v), an error with its context, or a panic.
Ok(v) == [ok |-> TRUE, val |-> v]
Err(kind, context) == [ok |-> FALSE, panic |-> FALSE, err |-> kind, context |-> context]
Panic(message) ==
    [ok |-> FALSE, panic |-> TRUE, err |-> "panic", context |-> [message |-> message]]

(***************************************************************************)
(* std::path on Unix, as far as Path::strip_prefix and Path::join use it.  *)
(***************************************************************************)
RootDir == <<"/">>
CurDir == <<".">>

HasRoot(p) == Len(p) > 0 /\ p[1] = "/"

IncludeCurDir(p) ==
    /\ ~HasRoot(p)
    /\ Len(p) > 0
    /\ p[1] = "."
    /\ (Len(p) = 1 \/ p[2] = "/")

Drop(p, n) == SubSeq(p, n + 1, Len(p))

\* Index of the first separator of p, 0 when there is none.
RECURSIVE SepPos(_, _)
SepPos(p, i) ==
    IF i > Len(p) THEN 0
    ELSE IF p[i] = "/" THEN i
    ELSE SepPos(p, i + 1)

\* Index of the last separator of p, 0 when there is none.
RECURSIVE SepRPos(_, _)
SepRPos(p, i) ==
    IF i = 0 THEN 0
    ELSE IF p[i] = "/" THEN i
    ELSE SepRPos(p, i - 1)

\* parse_single_component: "" and "." are no component.
ParseSingle(comp) == IF comp = <<>> \/ comp = <<".">> THEN None ELSE comp

\* Components::parse_next_component: the bytes consumed and the component.
ParseNextComponent(p) ==
    LET i == SepPos(p, 1) IN
    IF i = 0 THEN [size |-> Len(p), comp |-> ParseSingle(p)]
    ELSE [size |-> i, comp |-> ParseSingle(SubSeq(p, 1, i - 1))]

\* Components::parse_next_component_back, with len_before_body = start.
ParseNextComponentBack(p, start) ==
    LET body == Drop(p, start)
        i == SepRPos(body, Len(body)) IN
    IF i = 0 THEN [size |-> Len(body), comp |-> ParseSingle(body)]
    ELSE [size |-> Len(body) - i + 1, comp |-> ParseSingle(Drop(body, i))]

NewComponents(p) == [path |-> p, front |-> "Prefix"]

\* Components::next: the component (None at the end) and the advanced iterator.
RECURSIVE ComponentsNext(_)
ComponentsNext(it) ==
    CASE it.front = "Done" -> [comp |-> None, it |-> it]
      [] it.front = "Prefix" -> ComponentsNext([it EXCEPT !.front = "StartDir"])
      [] it.front = "StartDir" ->
            IF HasRoot(it.path)
            THEN [comp |-> RootDir, it |-> [path |-> Tail(it.path), front |-> "Body"]]
            ELSE IF IncludeCurDir(it.path)
            THEN [comp |-> CurDir, it |-> [path |-> Tail(it.path), front |-> "Body"]]
            ELSE ComponentsNext([it EXCEPT !.front = "Body"])
      [] OTHER ->
            IF it.path = <<>>
            THEN [comp |-> None, it |-> [it EXCEPT !.front = "Done"]]
            ELSE LET n == ParseNextComponent(it.path)
                     rest == [it EXCEPT !.path = Drop(it.path, n.size)] IN
                 IF n.comp # None THEN [comp |-> n.comp, it |-> rest]
                 ELSE ComponentsNext(rest)

\* Components::trim_left
RECURSIVE TrimLeft(_)
TrimLeft(p) ==
    IF p = <<>> THEN p
    ELSE LET n == ParseNextComponent(p) IN
         IF n.comp # None THEN p ELSE TrimLeft(Drop(p, n.size))

\* Components::trim_right
RECURSIVE TrimRight(_, _)
TrimRight(p, start) ==
    IF Len(p) <= start THEN p
    ELSE LET n == ParseNextComponentBack(p, start) IN
         IF n.comp # None THEN p
         ELSE TrimRight(SubSeq(p, 1, Len(p) - n.size), start)

\* Components::as_path
AsPath(it) ==
    LET start == IF it.front \in {"Prefix", "StartDir"}
                    /\ (HasRoot(it.path) \/ IncludeCurDir(it.path))
                 THEN 1 ELSE 0
        left == IF it.front = "Body" THEN TrimLeft(it.path) ELSE it.path IN
    TrimRight(left, start)

\* iter_after: the iterator left once prefix has been matched, if it matches.
RECURSIVE IterAfter(_, _)
IterAfter(iter, prefix) ==
    LET x == ComponentsNext(iter)
        y == ComponentsNext(prefix) IN
    CASE x.comp # None /\ y.comp # None /\ x.comp = y.comp -> IterAfter(x.it, y.it)
      [] x.comp # None /\ y.comp # None -> [some |-> FALSE, it |-> iter]
      [] y.comp = None -> [some |-> TRUE, it |-> iter]
      [] OTHER -> [some |-> FALSE, it |-> iter]

\* Path::strip_prefix
StripPrefix(p, base) ==
    LET r == IterAfter(NewComponents(p), NewComponents(base)) IN
    IF r.some THEN Ok(AsPath(r.it))
    ELSE Err("PrefixError", [message |-> "Failed to strip esp prefix",
                             esp |-> base, path |-> p])

\* Path::join (PathBuf::push)
Join(base, p) ==
    IF HasRoot(p) THEN p
    ELSE IF Len(base) > 0 /\ base[Len(base)] # "/" THEN base \o <<"/">> \o p
    ELSE base \o p

\* Path::to_str: fails on a path that is not valid UTF-8.
ToStr(p) == IF \E i \in 1..Len(p) : p[i] = "~" THEN None ELSE p

\* str::replace('/', "\\")
RECURSIVE Replace(_)
Replace(s) ==
    IF s = <<>> THEN <<>>
    ELSE <<IF Head(s) = "/" THEN "\\" ELSE Head(s)>> \o Replace(Tail(s))

(***************************************************************************)
(* pe.rs: the UEFI path encoder.                                           *)
(***************************************************************************)
RECURSIVE ReplaceFirst(_)
ReplaceFirst(s) ==
    IF s = <<>> THEN <<>>
    ELSE IF Head(s) = "/" THEN <<"\\">> \o Tail(s)
    ELSE <<Head(s)>> \o ReplaceFirst(Tail(s))

uefi_path_replacen(p) ==
    IF ToStr(p) = None
    THEN Err("EncodingError", [message |-> "Failed to convert to an UEFI path",
                               path |-> p])
    ELSE Ok(ReplaceFirst(ToStr(p)))

uefi_path(p) ==
    IF ToStr(p) = None
    THEN Err("EncodingError", [message |-> "Failed to convert to an UEFI path",
                               path |-> p])
    ELSE Ok(Replace(ToStr(p)))

esp_relative_uefi_path(e, p) ==
    LET relative_path == StripPrefix(p, e) IN
    IF ~relative_path.ok THEN relative_path
    ELSE LET u == uefi_path(relative_path.val) IN
         IF ~u.ok THEN u ELSE Ok(<<"\\">> \o u.val)

(***************************************************************************)
(* esp.rs: the ESP path table.                                             *)
(***************************************************************************)
EspPathsNewFlat(e) ==
    LET efi == Join(e, <<"EFI">>)
        loader == Join(e, <<"loader">>) IN
    [esp |-> e,
     efi |-> efi,
     nixos |-> Join(efi, <<"nixos">>),
     linux |-> Join(efi, <<"Linux">>),
     efi_fallback_dir |-> Join(efi, <<"BOOT">>),
     efi_fallback |-> Join(efi, <<"BOOTX64.EFI">>),
     systemd |-> Join(efi, <<"systemd">>),
     systemd_boot |-> Join(efi, <<"systemd-bootx64.efi">>),
     loader |-> loader,
     systemd_boot_loader_config |-> Join(loader, <<"loader.conf">>)]

EspPathsNew(e) ==
    LET efi == Join(e, <<"EFI">>)
        efi_nixos == Join(efi, <<"nixos">>)
        efi_linux == Join(efi, <<"Linux">>)
        efi_systemd == Join(efi, <<"systemd">>)
        efi_efi_fallback_dir == Join(efi, <<"BOOT">>)
        loader == Join(e, <<"loader">>)
        systemd_boot_loader_config == Join(loader, <<"loader.conf">>) IN
    [esp |-> e,
     efi |-> efi,
     nixos |-> efi_nixos,
     linux |-> efi_linux,
     efi_fallback_dir |-> efi_efi_fallback_dir,
     efi_fallback |-> Join(efi_efi_fallback_dir, <<"BOOTX64.EFI">>),
     systemd |-> efi_systemd,
     systemd_boot |-> Join(efi_systemd, <<"systemd-bootx64.efi">>),
     loader |-> loader,
     systemd_boot_loader_config |-> systemd_boot_loader_config]

to_iter(self) ==
    <<self.esp, self.efi, self.nixos, self.linux, self.efi_fallback_dir,
      self.efi_fallback, self.systemd, self.systemd_boot, self.loader,
      self.systemd_boot_loader_config>>

(***************************************************************************)
(* The inputs the specifications draw from.                                *)
(***************************************************************************)
EspInputs == AllSeqs(Bytes, MaxEspLen)
PathInputs == AllSeqs(Bytes, MaxPathLen)
RootInputs == AllSeqs({"/", "r", "."}, MaxRootLen)

NoStub == [read |-> FALSE, parse |-> FALSE, optional_header |-> FALSE,
           image_base |-> 0, sections |-> <<>>]
NoFile == [exists |-> FALSE, size |-> 0]

IdleInputs ==
    /\ lanzaboote_stub = NoStub
    /\ os_release = NoFile
    /\ kernel_cmdline = <<>>
    /\ kernel_path = <<>>
    /\ initrd_path = <<>>
    /\ overflow_checks = FALSE

IdleImage ==
    /\ disk = <<>>
    /\ offs = <<>>
    /\ sections = <<>>
    /\ invocations = <<>>
    /\ result = {}
    /\ sized = {}
    /\ written = {}
    /\ created = {}
    /\ released = FALSE

(***************************************************************************)
(* SpecPath: esp_relative_uefi_path applied to every pair of a root and a  *)
(* path.                                                                   *)
(***************************************************************************)
InitPath ==
    /\ esp \in EspInputs
    /\ path \in PathInputs
    /\ converted = {}
    /\ esp_paths = {}
    /\ gc_roots = <<>>
    /\ pc = "convert"
    /\ IdleInputs
    /\ IdleImage

Convert ==
    /\ pc = "convert"
    /\ converted' = {esp_relative_uefi_path(esp, path)}
    /\ pc' = "converted"
    /\ UNCHANGED <<esp, path, espVars, inputVars, imageVars>>

NextPath == Convert

SpecPath == InitPath /\ [][NextPath]_vars

(***************************************************************************)
(* SpecEsp: EspPaths::new followed by EspPaths::to_iter, for every root.   *)
(***************************************************************************)
InitEsp ==
    /\ esp \in RootInputs
    /\ path = <<>>
    /\ converted = {}
    /\ esp_paths = {}
    /\ gc_roots = <<>>
    /\ pc = "new"
    /\ IdleInputs
    /\ IdleImage

New ==
    /\ pc = "new"
    /\ esp_paths' = {EspPathsNew(esp)}
    /\ pc' = "built"
    /\ UNCHANGED <<esp, pathVars, gc_roots, inputVars, imageVars>>

ToIter ==
    /\ pc = "built"
    /\ \E self \in esp_paths : gc_roots' = to_iter(self)
    /\ pc' = "iterated"
    /\ UNCHANGED <<esp, pathVars, esp_paths, inputVars, imageVars>>

NextEsp == New \/ ToIter

SpecEsp == InitEsp /\ [][NextEsp]_vars

(***************************************************************************)
(* pe.rs: the image assembly.                                              *)
(***************************************************************************)
\* Integer addition at width w: a build with overflow checks panics on
\* overflow, a build without them wraps.
Add(w, a, b) ==
    IF a + b < w THEN Ok(a + b)
    ELSE IF overflow_checks THEN Panic("attempt to add with overflow")
    ELSE Ok((a + b) % w)

AddU32(a, b) == Add(U32, a, b)
AddU64(a, b) == Add(U64, a, b)

\* The caller's TempDir and the files the caller names.
TempDirPath == <<"/", "tmp", "/", "T">>
StubPath == <<"/", "store", "/", "stub.efi">>
OsReleasePath == <<"/", "etc", "/", "os-release">>

\* write_secure_file: the path of the file it writes inside the directory.
SecureFilePath(name) == Join(TempDirPath, <<name>>)

ImagePathBesideStub == Join(<<"/", "store">>, <<"lanzaboote-stub.efi">>)

\* let image_path = tempdir.path().join("lanzaboote-stub.efi")
ImagePath == Join(TempDirPath, <<"lanzaboote-stub.efi">>)

AuxNames == {"kernel-cmdline", "kernel-path", "kernel-hash", "initrd-path",
             "initrd-hash"}

\* [String]::join(" ")
RECURSIVE JoinSpace(_)
JoinSpace(words) ==
    IF words = <<>> THEN <<>>
    ELSE IF Len(words) = 1 THEN words[1]
    ELSE words[1] \o <<" ">> \o JoinSpace(Tail(words))

image_base(pe) ==
    IF pe.optional_header THEN Ok(pe.image_base)
    ELSE Panic("Failed to find optional header, you're fucked")

stub_offset(binary) ==
    IF ~binary.read THEN Err("IOError", [message |-> "Failed to read PE binary file"])
    ELSE IF ~binary.parse
    THEN Err("ParseError", [message |-> "Failed to parse PE binary file"])
    ELSE LET base == image_base(binary) IN
         IF ~base.ok THEN base
         ELSE IF binary.sections = <<>> THEN Panic("Failed to calculate offset")
         ELSE LET last == binary.sections[Len(binary.sections)]
                  end == AddU32(last.virtual_size, last.virtual_address) IN
              IF ~end.ok THEN end ELSE AddU64(end.val, base.val)

file_size(p) ==
    IF p \in DOMAIN disk THEN Ok(disk[p])
    ELSE Err("IOError", [message |-> "Failed to read file metadata to calculate its size",
                         path |-> p])

s(name, file_path, offset) ==
    [name |-> name, file_path |-> file_path, offset |-> offset]

HexDigits == <<"0", "1", "2", "3", "4", "5", "6", "7", "8", "9",
               "a", "b", "c", "d", "e", "f">>

\* format!("{:x}", n)
RECURSIVE LowerHex(_)
LowerHex(n) ==
    IF n < 16 THEN <<HexDigits[n + 1]>>
    ELSE LowerHex(n \div 16) \o <<HexDigits[(n % 16) + 1]>>

\* format!("{}", n)
RECURSIVE Decimal(_)
Decimal(n) ==
    IF n < 10 THEN <<HexDigits[n + 1]>>
    ELSE Decimal(n \div 10) \o <<HexDigits[(n % 10) + 1]>>

to_objcopy_decimal(self) ==
    << <<"--add-section">>,
       <<self.name, "=">> \o self.file_path,
       <<"--change-section-vma">>,
       <<self.name, "=">> \o Decimal(self.offset) >>

to_objcopy(self) ==
    << <<"--add-section">>,
       <<self.name, "=">> \o self.file_path,
       <<"--change-section-vma">>,
       <<self.name, "=", "0", "x">> \o LowerHex(self.offset) >>

RECURSIVE FlatMapToObjcopy(_)
FlatMapToObjcopy(secs) ==
    IF secs = <<>> THEN <<>>
    ELSE to_objcopy(Head(secs)) \o FlatMapToObjcopy(Tail(secs))

\* wrap_in_pe, lines 76-80: the argument list.
WrapArgs(stub, secs, output) == FlatMapToObjcopy(secs) \o <<stub, output>>

\* wrap_in_pe, lines 82-93: what it returns once objcopy has run.
WrapResult(args, status) ==
    IF ~status.spawned
    THEN Err("IOError", [message |-> "Failed to run objcopy command"])
    ELSE IF status.code # 0
    THEN Err("EmbedError", [message |-> "Failed to wrap in pe with args",
                            args |-> args])
    ELSE Ok(<<>>)

\* lines 53-60
PlannedSections ==
    << s(".osrel", OsReleasePath, offs[1]),
       s(".cmdline", SecureFilePath("kernel-cmdline"), offs[2]),
       s(".initrdp", SecureFilePath("initrd-path"), offs[3]),
       s(".kernelp", SecureFilePath("kernel-path"), offs[4]),
       s(".initrdh", SecureFilePath("initrd-hash"), offs[5]),
       s(".kernelh", SecureFilePath("kernel-hash"), offs[6]) >>

(***************************************************************************)
(* Spec: one call of lanzaboote_image, then the caller dropping the        *)
(* TempDir.                                                                *)
(***************************************************************************)
ImageBases == {0, U64 - 1 - HashLen, U64 - 1}
VirtualAddresses == {1, U32 - 1}
VirtualSizes == {0, 1}

Sec(a, n) == [virtual_address |-> a, virtual_size |-> n]

SectionTables ==
    {<<>>, <<Sec(0, 1), Sec(1, 1)>>}
        \cup {<<Sec(a, n)>> : a \in VirtualAddresses, n \in VirtualSizes}

StubInputs ==
    {NoStub, [NoStub EXCEPT !.read = TRUE]}
        \cup {[read |-> TRUE, parse |-> TRUE, optional_header |-> TRUE,
               image_base |-> b, sections |-> t] :
                  b \in ImageBases, t \in SectionTables}
        \cup {[read |-> TRUE, parse |-> TRUE, optional_header |-> FALSE,
               image_base |-> 0, sections |-> <<Sec(1, 1)>>]}

OsReleaseInputs == {NoFile, [exists |-> TRUE, size |-> 0], [exists |-> TRUE, size |-> 3]}
CmdlineInputs == {<<>>, << <<"q">> >>, << <<"q">>, <<"r">> >>}
\* The ESP and the kernel and initrd paths, byte by byte: under the ESP, not
\* under it, and not valid UTF-8.
ImageEsp == <<"/", "e">>
KernelPathInputs ==
    {<<"/", "e", "/", "k">>, <<"/", "b", "/", "k">>, <<"/", "e", "/", "~">>}
InitrdPathInputs == {<<"/", "e", "/", "n", "/", "i">>, <<"/", "b", "/", "i">>}

Init ==
    /\ esp = ImageEsp
    /\ path = <<>>
    /\ converted = {}
    /\ esp_paths = {}
    /\ gc_roots = <<>>
    /\ lanzaboote_stub \in StubInputs
    /\ os_release \in OsReleaseInputs
    /\ kernel_cmdline \in CmdlineInputs
    /\ kernel_path \in KernelPathInputs
    /\ initrd_path \in InitrdPathInputs
    /\ overflow_checks \in BOOLEAN
    /\ pc = "kernel_cmdline"
    /\ disk = IF os_release.exists THEN (OsReleasePath :> os_release.size) ELSE <<>>
    /\ offs = <<>>
    /\ sections = <<>>
    /\ invocations = <<>>
    /\ result = {}
    /\ sized = {}
    /\ written = {}
    /\ created = {}
    /\ released = FALSE

untouched == <<esp, pathVars, espVars, inputVars>>

\* The call returns r (or, for a panic, unwinds with it).
Return(r) ==
    /\ result' = {r}
    /\ pc' = "returned"

\* tempdir.write_secure_file(name, contents)?, contents being the result of
\* the expression that computes them; then on to the step next.
WriteSecureFile(name, contents, next) ==
    /\ UNCHANGED <<untouched, offs, sections, invocations, sized, released>>
    /\ IF ~contents.ok
       THEN Return(contents) /\ UNCHANGED <<disk, written, created>>
       ELSE \E outcome \in {"written", "not created", "partly written"} :
              IF outcome = "written"
              THEN /\ disk' = (SecureFilePath(name) :> Len(contents.val)) @@ disk
                   /\ created' = created \cup {SecureFilePath(name)}
                   /\ written' = written \cup {name}
                   /\ pc' = next
                   /\ UNCHANGED result
              ELSE /\ Return(Err("IOError", [message |-> "write_secure_file", name |-> name]))
                   /\ UNCHANGED written
                   /\ IF outcome = "partly written"
                      THEN /\ disk' = (SecureFilePath(name) :> 0) @@ disk
                           /\ created' = created \cup {SecureFilePath(name)}
                      ELSE UNCHANGED <<disk, created>>

\* file_hash: the digest of a file that can be read.
file_hash(readable) ==
    IF readable THEN Ok([i \in 1..HashLen |-> "h"])
    ELSE Err("IOError", [message |-> "file_hash"])

WriteKernelCmdline ==
    /\ pc = "kernel_cmdline"
    /\ WriteSecureFile("kernel-cmdline", Ok(JoinSpace(kernel_cmdline)), "kernel_path")

WriteKernelPath ==
    /\ pc = "kernel_path"
    /\ WriteSecureFile("kernel-path", esp_relative_uefi_path(esp, kernel_path),
                       "kernel_hash")

WriteKernelHash ==
    /\ pc = "kernel_hash"
    /\ \E readable \in BOOLEAN :
          WriteSecureFile("kernel-hash", file_hash(readable), "initrd_path")

WriteInitrdPath ==
    /\ pc = "initrd_path"
    /\ WriteSecureFile("initrd-path", esp_relative_uefi_path(esp, initrd_path),
                       "initrd_hash")

WriteInitrdHash ==
    /\ pc = "initrd_hash"
    /\ \E readable \in BOOLEAN :
          WriteSecureFile("initrd-hash", file_hash(readable), "stub_offset")

\* let os_release_offs = stub_offset(lanzaboote_stub)?;
StubOffset ==
    /\ pc = "stub_offset"
    /\ LET r == stub_offset(lanzaboote_stub) IN
       IF r.ok
       THEN offs' = <<r.val>> /\ pc' = "size_os_release" /\ UNCHANGED result
       ELSE Return(r) /\ UNCHANGED offs
    /\ UNCHANGED <<untouched, disk, sections, invocations, sized, written,
                   created, released>>

\* let <next>_offs = <previous>_offs + file_size(<previous file>)?;
NextOffset(file, next) ==
    /\ LET size == file_size(file) IN
       IF ~size.ok
       THEN Return(size) /\ UNCHANGED <<offs, sized>>
       ELSE LET sum == AddU64(offs[Len(offs)], size.val) IN
            /\ sized' = sized \cup {file}
            /\ IF sum.ok
               THEN offs' = Append(offs, sum.val) /\ pc' = next /\ UNCHANGED result
               ELSE Return(sum) /\ UNCHANGED offs
    /\ UNCHANGED <<untouched, disk, sections, invocations, written, created, released>>

KernelCmdlineOffs ==
    /\ pc = "size_os_release"
    /\ NextOffset(OsReleasePath, "size_kernel_cmdline")

InitrdPathOffs ==
    /\ pc = "size_kernel_cmdline"
    /\ NextOffset(SecureFilePath("kernel-cmdline"), "size_initrd_path")

KernelPathOffs ==
    /\ pc = "size_initrd_path"
    /\ NextOffset(SecureFilePath("initrd-path"), "size_kernel_path")

InitrdHashOffs ==
    /\ pc = "size_kernel_path"
    /\ NextOffset(SecureFilePath("kernel-path"), "size_initrd_hash")

KernelHashOffs ==
    /\ pc = "size_initrd_hash"
    /\ NextOffset(SecureFilePath("initrd-hash"), "wrap_in_pe")

\* What objcopy does: it may fail to start, and it exits with a status; it
\* writes the output, or may leave a part of it when it fails.
Statuses ==
    {[spawned |-> FALSE, code |-> 0]}
        \cup {[spawned |-> TRUE, code |-> c] : c \in {0, 1, 2}}

\* lines 53-64: the sections, wrap_in_pe, and the return.
WrapInPe ==
    /\ pc = "wrap_in_pe"
    /\ sections' = PlannedSections
    /\ LET args == WrapArgs(StubPath, PlannedSections, ImagePath) IN
       \E status \in Statuses, output \in BOOLEAN :
          /\ status.spawned /\ status.code = 0 => output
          /\ ~status.spawned => ~output
          /\ invocations' = Append(invocations, [args |-> args, status |-> status])
          /\ IF output
             THEN /\ disk' = (args[Len(args)] :> 1) @@ disk
                  /\ created' = created \cup {args[Len(args)]}
             ELSE UNCHANGED <<disk, created>>
          /\ LET r == WrapResult(args, status) IN
             Return(IF r.ok THEN Ok(ImagePath) ELSE r)
    /\ UNCHANGED <<untouched, offs, sized, written, released>>

\* A path inside the directory: one that starts with the directory's bytes
\* followed by a separator.
IsInTempDir(q) ==
    /\ Len(q) > Len(TempDirPath) + 1
    /\ SubSeq(q, 1, Len(TempDirPath)) = TempDirPath
    /\ q[Len(TempDirPath) + 1] = "/"

\* The caller drops the TempDir: the directory and all it holds are removed.
Release ==
    /\ pc = "returned"
    /\ ~released
    /\ released' = TRUE
    /\ disk' = [p \in {q \in DOMAIN disk : ~IsInTempDir(q)} |-> disk[p]]
    /\ UNCHANGED <<untouched, pc, offs, sections, invocations, result, sized,
                   written, created>>

Next ==
    \/ WriteKernelCmdline
    \/ WriteKernelPath
    \/ WriteKernelHash
    \/ WriteInitrdPath
    \/ WriteInitrdHash
    \/ StubOffset
    \/ KernelCmdlineOffs
    \/ InitrdPathOffs
    \/ KernelPathOffs
    \/ InitrdHashOffs
    \/ KernelHashOffs
    \/ WrapInPe
    \/ Release

Spec == Init /\ [][Next]_vars

(***************************************************************************)
(* Definitions the properties are stated with: a path's components, read   *)
(* off its pieces between separators.                                      *)
(***************************************************************************)
RECURSIVE Pieces(_)
Pieces(p) ==
    LET i == SepPos(p, 1) IN
    IF i = 0 THEN <<p>>
    ELSE <<SubSeq(p, 1, i - 1)>> \o Pieces(Drop(p, i))

RECURSIVE KeepPieces(_, _)
KeepPieces(ps, first) ==
    IF ps = <<>> THEN <<>>
    ELSE LET keep == Head(ps) # <<>> /\ (Head(ps) # <<".">> \/ first) IN
         (IF keep THEN <<Head(ps)>> ELSE <<>>) \o KeepPieces(Tail(ps), FALSE)

ComponentsOf(p) ==
    (IF HasRoot(p) THEN <<RootDir>> ELSE <<>>) \o KeepPieces(Pieces(p), TRUE)

IsPrefixOf(a, b) == Len(a) <= Len(b) /\ SubSeq(b, 1, Len(a)) = a

Under(p, root) == IsPrefixOf(ComponentsOf(root), ComponentsOf(p))

Textual(p) == \A i \in 1..Len(p) : p[i] # "~"

Encoded(str) == [i \in 1..Len(str) |-> IF str[i] = "/" THEN "\\" ELSE str[i]]

\* The slices of p that are p with the prefix root stripped.
Stripped(p, root) ==
    {r \in {SubSeq(p, i, j) : i \in 1..(Len(p) + 1), j \in 0..Len(p)} :
        ComponentsOf(root) \o ComponentsOf(r) = ComponentsOf(p)}

\* C4: for a textual path under the ESP root, esp_relative_uefi_path is one
\* backslash followed by the path with the root stripped, every "/" of it
\* turned into "\" and every other character kept; for a path that is not
\* under the root it fails with a PrefixError and yields no string.
C4_EspRelativeUefiPath ==
    \A r \in converted :
        /\ (Textual(path) /\ Under(path, esp)) =>
              /\ r.ok
              /\ \E rel \in Stripped(path, esp) : r.val = <<"\\">> \o Encoded(rel)
        /\ ~Under(path, esp) => (~r.ok /\ r.err = "PrefixError")

C4_Witness ==
    \E r \in converted :
        /\ r.ok
        /\ Under(path, esp)
        /\ esp # <<>>
        /\ Len(r.val) >= 4
        /\ \E i \in 2..Len(r.val) : r.val[i] = "\\"

C4_WitnessNotUnder ==
    \E r \in converted : ~r.ok /\ r.err = "PrefixError" /\ Textual(path)

SuffixTable ==
    << <<"EFI">>,
       <<"EFI", "/", "nixos">>,
       <<"EFI", "/", "Linux">>,
       <<"EFI", "/", "BOOT">>,
       <<"EFI", "/", "BOOT", "/", "BOOTX64.EFI">>,
       <<"EFI", "/", "systemd">>,
       <<"EFI", "/", "systemd", "/", "systemd-bootx64.efi">>,
       <<"loader">>,
       <<"loader", "/", "loader.conf">> >>

\* C8: to_iter yields ten paths in a fixed order: the root, then the root
\* joined with each of nine fixed relative suffixes; each lies in the
\* subtree of the root.
C8_PathTable ==
    pc = "iterated" =>
        /\ Len(gc_roots) = 10
        /\ gc_roots[1] = esp
        /\ \A i \in 1..9 : gc_roots[i + 1] = Join(esp, SuffixTable[i])
        /\ \A i \in 1..10 : Under(gc_roots[i], esp)

C8_Witness ==
    /\ pc = "iterated"
    /\ Len(esp) = 3
    /\ esp[3] = "/"
    /\ Len(gc_roots) = 10

(***************************************************************************)
(* Properties of the image assembly.                                       *)
(***************************************************************************)
SectionNames == <<".osrel", ".cmdline", ".initrdp", ".kernelp", ".initrdh", ".kernelh">>

\* The sections are planned and their content files are still on disk.
Planned == sections # <<>> /\ ~released

ContentSize(i) == disk[sections[i].file_path]

\* C1: the six sections are planned in protocol order; .osrel is at the
\* free offset stub_offset returned and every later section is at the
\* previous section's offset plus the size of the previous section's
\* content file.
C1_CumulativeOffsets ==
    Planned =>
        /\ [i \in 1..Len(sections) |-> sections[i].name] = SectionNames
        /\ sections[1].offset = offs[1]
        /\ \A i \in 1..5 :
              sections[i + 1].offset = sections[i].offset + ContentSize(i)

\* What the additions of lines 47-51 do give: each offset is the previous one
\* plus the previous content size, reduced to the width of a u64.
CumulativeOffsetsModuloWidth ==
    Planned =>
        /\ [i \in 1..Len(sections) |-> sections[i].name] = SectionNames
        /\ sections[1].offset = offs[1]
        /\ \A i \in 1..5 :
              sections[i + 1].offset = (sections[i].offset + ContentSize(i)) % U64

\* The call got as far as stub_offset, and stub_offset has finished.
StubOffsetDone ==
    /\ written = AuxNames
    /\ pc \notin {"initrd_hash", "stub_offset"}

HasLastSection ==
    /\ lanzaboote_stub.read
    /\ lanzaboote_stub.parse
    /\ lanzaboote_stub.optional_header
    /\ lanzaboote_stub.sections # <<>>

\* C2: for a stub with image base IB whose last section has virtual address
\* A and virtual size S, stub_offset returns IB + A + S.
C2_FreeOffset ==
    (StubOffsetDone /\ HasLastSection) =>
        LET last == lanzaboote_stub.sections[Len(lanzaboote_stub.sections)] IN
        /\ offs # <<>>
        /\ offs[1] = lanzaboote_stub.image_base + last.virtual_address
                        + last.virtual_size

\* C3: a well-formed stub with no section, or with no optional header, makes
\* stub_offset fail with a StructuralError returned as an error result; the
\* call does not panic and yields no offset.
C3_StructuralError ==
    (/\ StubOffsetDone
     /\ lanzaboote_stub.read
     /\ lanzaboote_stub.parse
     /\ (lanzaboote_stub.sections = <<>> \/ ~lanzaboote_stub.optional_header)) =>
        /\ offs = <<>>
        /\ \E r \in result : ~r.ok /\ ~r.panic /\ r.err = "StructuralError"

\* C5: the five auxiliary files are written before any size is read, the six
\* offsets are computed before objcopy is invoked, objcopy is invoked at most
\* once, and the call returns a path only when objcopy succeeded and an error
\* result otherwise.
C5_OrderAndAllOrNothing ==
    /\ sized # {} => written = AuxNames
    /\ invocations # <<>> => Len(offs) = 6
    /\ Len(invocations) <= 1
    /\ pc = "returned" =>
          \A r \in result :
              IF r.ok
              THEN /\ r.val = ImagePath
                   /\ Len(invocations) = 1
                   /\ invocations[1].status = [spawned |-> TRUE, code |-> 0]
              ELSE ~r.panic

\* The order of the steps alone, whatever way the call ends.
StepOrder ==
    /\ sized # {} => written = AuxNames
    /\ invocations # <<>> => Len(offs) = 6
    /\ Len(invocations) <= 1
    /\ \A r \in result :
          r.ok => /\ r.val = ImagePath
                  /\ Len(invocations) = 1
                  /\ invocations[1].status = [spawned |-> TRUE, code |-> 0]

\* The value of a string of lower-case hexadecimal digits.
HexValue(d) == CHOOSE v \in 0..15 : HexDigits[v + 1] = d

RECURSIVE ParseHex(_)
ParseHex(digits) ==
    IF digits = <<>> THEN 0
    ELSE 16 * ParseHex(SubSeq(digits, 1, Len(digits) - 1))
            + HexValue(digits[Len(digits)])

IsHexDirective(arg, name, offset) ==
    /\ Len(arg) > 4
    /\ SubSeq(arg, 1, 4) = <<name, "=", "0", "x">>
    /\ \A i \in 5..Len(arg) : \E v \in 1..16 : HexDigits[v] = arg[i]
    /\ ParseHex(Drop(arg, 4)) = offset

\* C6: wrap_in_pe invokes objcopy once, with, for each planned section in
\* order, --add-section, name=content-file, --change-section-vma and
\* name=0x<offset in hexadecimal>, then the stub path, then the output path,
\* and nothing else.
C6_ObjcopyArguments ==
    sections # <<>> =>
        /\ Len(invocations) = 1
        /\ LET args == invocations[1].args
               n == Len(sections) IN
           /\ Len(args) = 4 * n + 2
           /\ \A i \in 1..n :
                 /\ args[4 * i - 3] = <<"--add-section">>
                 /\ args[4 * i - 2] = <<sections[i].name, "=">> \o sections[i].file_path
                 /\ args[4 * i - 1] = <<"--change-section-vma">>
                 /\ IsHexDirective(args[4 * i], sections[i].name, sections[i].offset)
           /\ args[4 * n + 1] = StubPath
           /\ args[4 * n + 2] = ImagePath

C6_Witness ==
    /\ Len(invocations) = 1
    /\ Len(sections) = 6
    /\ \E i \in 1..6 : sections[i].offset >= 16
    /\ sections[1].offset # sections[2].offset

\* C7: when objcopy exits with a non-zero status, wrap_in_pe returns an
\* EmbedError that carries the exit status and the argument list.
C7_EmbedErrorContext ==
    \A i \in 1..Len(invocations) :
        (invocations[i].status.spawned /\ invocations[i].status.code # 0) =>
            \E r \in result :
                /\ ~r.ok
                /\ r.err = "EmbedError"
                /\ r.context.args = invocations[i].args
                /\ "status" \in DOMAIN r.context
                /\ r.context.status = invocations[i].status.code

\* C9: every file the call creates lies inside the caller's temporary
\* directory, so once the directory is released none of them is on disk.
C9_TempDirCleanup ==
    /\ \A p \in created : IsInTempDir(p)
    /\ released => \A p \in created : p \notin DOMAIN disk

C9_Witness ==
    /\ released
    /\ Cardinality(created) = 6
    /\ ImagePath \in created
    /\ \E r \in result : ~r.ok

\* C10: the offsets of the six sections are strictly increasing in protocol
\* order and no two sections' ranges [offset, offset + size) overlap.
C10_StrictlyIncreasing ==
    Planned =>
        \A i \in 1..6 : \A j \in (i + 1)..6 :
            /\ sections[i].offset < sections[j].offset
            /\ sections[i].offset + ContentSize(i) <= sections[j].offset

====
